---- MODULE Spec2Model ----
(***************************************************************************)
(* dyn-wall-rs: the time-interval scheduling and validation engine of      *)
(* src/src/lib.rs (wallpaper_listener, wallpaper_current_time,             *)
(* error_checking, listener_setup, print_schedule).                        *)
(*                                                                         *)
(* A Time is represented by its total_mins field.  A file path is a        *)
(* string; the i-th file of the sorted directory is the one-character      *)
(* string <<i>>, so that String::push_str is sequence concatenation.       *)
(***************************************************************************)
EXTENDS Integers, Sequences, FiniteSets, TLC

\* ---------------------------------------------------------------- bounds
\* longest user supplied list of times
MaxLen == 4
\* the user supplied times are drawn from a grid of Slots equal parts of the day
Slots == 4
\* largest number of files in the directory for the derived schedules
MaxCount == 12

\* ------------------------------------------------------- the Time type
\* crate::time_track::Time is not part of the sources at hand: Time::new
\* stores the minute count, comparisons compare it, += adds without clamping.
Time_new(total_mins) == total_mins

Time_add(t, step) == Time_new(t + step)

\* let full_time = Time::new(24 * 60);
full_time == Time_new(24 * 60)

\* let midnight = Time::default();
midnight == Time_new(0)

\* ------------------------------------------------- f32 step computation
\* nearest integer to a/b, ties to even (IEEE 754 default rounding)
RoundHalfEven(a, b) ==
  LET q == a \div b
      r == a % b
  IN  IF 2 * r > b THEN q + 1
      ELSE IF 2 * r < b THEN q
      ELSE IF q % 2 = 1 THEN q + 1 ELSE q

\* a bug variant of F32Div: the quotient is truncated instead of rounded
F32DivTruncated(a, b) ==
  LET k == CHOOSE e \in 0..26 : a * 2^e >= b * 2^23 /\ a * 2^e < b * 2^24
  IN  [m |-> (a * 2^k) \div b, k |-> k]

\* the f32 nearest to a/b, as mantissa m (24 bits) and exponent: m * 2^-k
F32Div(a, b) ==
  LET k == CHOOSE e \in 0..26 : a * 2^e >= b * 2^23 /\ a * 2^e < b * 2^24
      m == RoundHalfEven(a * 2^k, b)
  IN  IF m = 2^24 THEN [m |-> 2^23, k |-> k - 1] ELSE [m |-> m, k |-> k]

\* the f32 nearest to x * c for a small integer c
F32Mul(x, c) ==
  LET p == x.m * c
      s == CHOOSE e \in 0..7 : p >= 2^(23 + e) /\ p < 2^(24 + e)
      m == RoundHalfEven(p, 2^s)
  IN  IF m = 2^24 THEN [m |-> 2^23, k |-> x.k - s - 1] ELSE [m |-> m, k |-> x.k - s]

\* `as u32`: truncation toward zero
F32AsU32(x) == IF x.k >= 0 THEN x.m \div 2^(x.k) ELSE x.m * 2^(0 - x.k)

\* Time::new(((24.0 / dir_count as f32) * 60.0) as u32), for dir_count > 0
StepTime(n) == Time_new(F32AsU32(F32Mul(F32Div(24, n), 60)))

\* ------------------------------------------------------- error values
Ok == [kind |-> "Ok", n |-> 0]

Empty == [kind |-> "Empty", n |-> 0]

OutOfOrder == [kind |-> "OutOfOrder", n |-> 0]

FileTimeMismatch == [kind |-> "FileTimeMismatch", n |-> 0]

NoFilesFoundError == [kind |-> "NoFilesFoundError", n |-> 0]

CountCompatError(n) == [kind |-> "CountCompatError", n |-> n]

\* the process aborts (a panic), no error value is returned
Panic == [kind |-> "Panic", n |-> 0]

NoResult == [kind |-> "none", n |-> 0]

\* ------------------------------------------------------ error_checking
\* the locals of error_checking before its loop
ECInit(times) ==
  [curr_range |-> times[1], curr_range_other |-> times[1],
   start_range_other |-> times[1], other_inited |-> FALSE, err |-> FALSE]

\* a bug variant of ECStep: the comparisons with curr_range are swapped
ECStepSwapped(st, start_range, time) ==
  IF st.err THEN st
  ELSE IF time > start_range /\ time < st.curr_range
    THEN [st EXCEPT !.curr_range = time]
  ELSE IF time > start_range /\ time > st.curr_range
    THEN [st EXCEPT !.err = TRUE]
  ELSE IF time < start_range
    THEN IF ~st.other_inited
           THEN [st EXCEPT !.curr_range = full_time, !.start_range_other = time,
                           !.curr_range_other = time, !.other_inited = TRUE]
         ELSE IF time > st.start_range_other /\ time > st.curr_range_other
           THEN [st EXCEPT !.curr_range_other = time]
         ELSE [st EXCEPT !.err = TRUE]
  ELSE st

\* a bug variant of ECStep: the secondary run accepts a repeated value
ECStepNonStrict(st, start_range, time) ==
  IF st.err THEN st
  ELSE IF time > start_range /\ time > st.curr_range
    THEN [st EXCEPT !.curr_range = time]
  ELSE IF time > start_range /\ time < st.curr_range
    THEN [st EXCEPT !.err = TRUE]
  ELSE IF time < start_range
    THEN IF ~st.other_inited
           THEN [st EXCEPT !.curr_range = full_time, !.start_range_other = time,
                           !.curr_range_other = time, !.other_inited = TRUE]
         ELSE IF time >= st.start_range_other /\ time >= st.curr_range_other
           THEN [st EXCEPT !.curr_range_other = time]
         ELSE [st EXCEPT !.err = TRUE]
  ELSE st

\* one iteration of `for time in times_iter_err`; err: returned OutOfOrder
ECStep(st, start_range, time) ==
  IF st.err THEN st
  ELSE IF time > start_range /\ time > st.curr_range
    THEN [st EXCEPT !.curr_range = time]
  ELSE IF time > start_range /\ time < st.curr_range
    THEN [st EXCEPT !.err = TRUE]
  ELSE IF time < start_range
    THEN IF ~st.other_inited
           THEN [st EXCEPT !.curr_range = full_time, !.start_range_other = time,
                           !.curr_range_other = time, !.other_inited = TRUE]
         ELSE IF time > st.start_range_other /\ time > st.curr_range_other
           THEN [st EXCEPT !.curr_range_other = time]
         ELSE [st EXCEPT !.err = TRUE]
  ELSE st

\* the locals of error_checking after the first k iterations of its loop
RECURSIVE ECRun(_, _)
ECRun(times, k) ==
  IF k = 0 THEN ECInit(times)
  ELSE ECStep(ECRun(times, k - 1), times[1], times[k])

\* error_checking(times, loop_time, dir_count); loop_time is times.iter().next(),
\* so it is None exactly when times is empty.  val: the Time of Ok(*loop_time)
error_checking(times, dir_count) ==
  IF Len(times) = 0 THEN [res |-> Empty, val |-> 0]
  ELSE IF ECRun(times, Len(times)).err THEN [res |-> OutOfOrder, val |-> 0]
  \* 1440 % dir_count is evaluated before dir_count == 0
  ELSE IF dir_count = 0 THEN [res |-> Panic, val |-> 0]
  ELSE IF 1440 % dir_count # 0 THEN [res |-> CountCompatError(dir_count), val |-> 0]
  ELSE [res |-> Ok, val |-> times[1]]

\* ------------------------------------------------------------- inputs
\* the times a user writes in the configuration
Grid == {(k * 1440) \div Slots : k \in 0..Slots}

RECURSIVE SeqsUpTo(_, _)
SeqsUpTo(S, n) ==
  IF n = 0 THEN {<<>>}
  ELSE LET P == SeqsUpTo(S, n - 1)
       IN  P \cup {Append(p, x) : p \in {q \in P : Len(q) = n - 1}, x \in S}

ExampleTimes ==
  {<<480, 1200>>, <<600, 1320, 1440, 360, 1440>>, <<600, 300, 180>>,
   <<600, 300>>, <<1200, 1320, 120, 360>>, <<480, 300, 1200>>,
   <<600, 1440, 360, 1440, 400>>}

UserTimes == SeqsUpTo(Grid, MaxLen) \cup ExampleTimes

\* the minutes of the day the clock is read at
Nows ==
  {t \in 0..1439 : \E g \in Grid : t \in {g - 1, g}}
    \cup {120, 479, 600, 1260}

None == [some |-> FALSE, v |-> <<>>]

Some(t) == [some |-> TRUE, v |-> t]

\* the path of the i-th file of sorted_dir_iter (after the directory itself)
Image(i) == <<i>>

\* -------------------------------------------------------------- state
VARIABLES
  entry,        \* the function main calls: "wallpaper_listener" or "print_schedule"
  pc,           \* the position in the program
  dir_count,    \* number of files in the directory
  times_arg,    \* Option<Vec<Time>>: the user's times
  program,      \* whether a user program is configured (Option<String>)
  times,        \* the breakpoint vector
  step_time,    \* the step of the derived schedule
  loop_time,    \* the local loop_time of the running function
  next_time,    \* wallpaper_current_time: *next_time
  times_pos,    \* wallpaper_current_time: elements times_iter has yielded
  file,         \* index of the file dir_iter yields next
  curr_time,    \* wallpaper_current_time: the clock reading
  filepath_set, \* wallpaper_current_time: the String filepath_set
  last_image,   \* wallpaper_current_time: the String last_image
  feh_args,     \* the file arguments given to feh_handle
  prog_arg,     \* the file argument loaded into prog_handle
  printed,      \* print_schedule: the lines printed, <<file, time>>
  i,            \* print_schedule: the counter i
  result        \* what the entry function returned, or the process ended with

vars ==
  <<entry, pc, dir_count, times_arg, program, times, step_time, loop_time,
    next_time, times_pos, file, curr_time, filepath_set, last_image, feh_args,
    prog_arg, printed, i, result>>

scan_vars ==
  <<loop_time, next_time, times_pos, file, curr_time, filepath_set,
    last_image, feh_args, prog_arg>>

input_vars == <<entry, dir_count, times_arg, program>>

\* the directory counts the model pairs with a list of user times: one file
\* per time, one file more, one file less
CountsFor(t) == {c \in {Len(t) - 1, Len(t), Len(t) + 1} : c >= 0}

Init ==
  /\ entry \in {"wallpaper_listener", "print_schedule"}
  /\ \/ /\ times_arg = None
        /\ dir_count \in 0..MaxCount
     \/ /\ entry = "wallpaper_listener"
        /\ \E t \in UserTimes : times_arg = Some(t) /\ dir_count \in CountsFor(t)
  /\ program \in BOOLEAN
  /\ pc = "start"
  /\ times = <<>>
  /\ step_time = 0
  /\ loop_time = midnight
  /\ next_time = midnight
  /\ times_pos = 0
  /\ file = 1
  /\ curr_time = 0
  /\ filepath_set = <<>>
  /\ last_image = <<>>
  /\ feh_args = <<>>
  /\ prog_arg = <<>>
  /\ printed = <<>>
  /\ i = 0
  /\ result = NoResult

\* ------------------------------------------------- wallpaper_listener
\* listener_setup and `let step_time = step_time?;`
listener_setup ==
  /\ pc = "start"
  /\ entry = "wallpaper_listener"
  /\ IF dir_count = 0
       THEN /\ result' = NoFilesFoundError
            /\ pc' = "done"
            /\ UNCHANGED <<step_time, loop_time, times>>
       ELSE /\ step_time' = StepTime(dir_count)
            /\ loop_time' = midnight
            /\ times' = <<>>
            /\ pc' = "match"
            /\ UNCHANGED result
  /\ UNCHANGED <<input_vars, next_time, times_pos, file, curr_time,
                 filepath_set, last_image, feh_args, prog_arg, printed, i>>

\* a bug variant of GenCount: `1..dir_count` instead of `1..=dir_count`
GenCountExclusive(n) == n - 1

\* number of iterations of `for _ in 1..=dir_count`
GenCount(n) == n

\* None => one iteration of the generator loop
GenPush ==
  /\ pc = "match"
  /\ ~times_arg.some
  /\ Len(times) < GenCount(dir_count)
  /\ times' = Append(times, loop_time)
  /\ loop_time' = Time_add(loop_time, step_time)
  /\ UNCHANGED <<input_vars, pc, step_time, next_time, times_pos, file, curr_time,
                 filepath_set, last_image, feh_args, prog_arg, printed, i, result>>

\* None => the generator loop ends
GenDone ==
  /\ pc = "match"
  /\ ~times_arg.some
  /\ Len(times) >= GenCount(dir_count)
  /\ pc' = "call"
  /\ UNCHANGED <<input_vars, times, step_time, scan_vars, printed, i, result>>

\* Some(t) => times = t
UseTimesArg ==
  /\ pc = "match"
  /\ times_arg.some
  /\ times' = times_arg.v
  /\ pc' = "call"
  /\ UNCHANGED <<input_vars, step_time, scan_vars, printed, i, result>>

\* --------------------------------------------- wallpaper_current_time
\* times_iter.next().unwrap_or(&full_time), pos elements yielded so far
NextOr(ts, pos) == IF pos < Len(ts) THEN ts[pos + 1] ELSE full_time

Advance(ts, pos) == IF pos < Len(ts) THEN pos + 1 ELSE pos

\* a bug variant of InWindow: the end of the window is included
InWindowInclusive(now, lt, nt) == now >= lt /\ now <= nt

\* if curr_time >= loop_time && curr_time < *next_time
InWindow(now, lt, nt) == now >= lt /\ now < nt

\* a bug variant of Mismatch: either bound at the end of the day
MismatchEither(lt, nt) == lt = full_time \/ nt = full_time

\* if loop_time == full_time && *next_time == full_time
Mismatch(lt, nt) == lt = full_time /\ nt = full_time

\* if loop_time > *next_time { loop_time = midnight; }
Reset(lt, nt) == IF lt > nt THEN midnight ELSE lt

\* the function up to its loop: the locals, the clock, error_checking(..)?
Enter(errpc) ==
  LET r == error_checking(times, dir_count) IN
  /\ \E now \in Nows : curr_time' = now
  /\ next_time' = NextOr(times, Advance(times, 0))
  /\ times_pos' = Advance(times, Advance(times, 0))
  /\ filepath_set' = <<>>
  /\ last_image' = <<>>
  /\ feh_args' = <<>>
  /\ prog_arg' = <<>>
  /\ file' = 1
  /\ IF r.res = Ok
       THEN /\ loop_time' = r.val
            /\ pc' = "scan"
            /\ UNCHANGED result
       ELSE /\ loop_time' = NextOr(times, 0)
            /\ pc' = errpc
            /\ result' = r.res
  /\ UNCHANGED <<input_vars, times, step_time, printed, i>>

\* wallpaper_current_time(&dir, dir_count, Arc::clone(&program), &times)?
CallCurrentTime ==
  /\ pc = "call"
  /\ Enter("done")

\* the scheduled closure runs wallpaper_current_time again; Err => exit(1)
SchedClosure ==
  /\ pc = "listening"
  /\ Enter("done")

\* an iteration of `for file in dir_iter` that returns FileTimeMismatch
ScanMismatch ==
  /\ pc = "scan"
  /\ file <= dir_count
  /\ Mismatch(Reset(loop_time, next_time), next_time)
  /\ loop_time' = Reset(loop_time, next_time)
  /\ result' = FileTimeMismatch
  /\ pc' = "done"
  /\ UNCHANGED <<input_vars, times, step_time, next_time, times_pos, file,
                 curr_time, filepath_set, last_image, feh_args, prog_arg,
                 printed, i>>

\* a whole iteration of `for file in dir_iter`
ScanIteration ==
  /\ pc = "scan"
  /\ file <= dir_count
  /\ ~Mismatch(Reset(loop_time, next_time), next_time)
  /\ last_image' = Image(file)
  /\ IF InWindow(curr_time, Reset(loop_time, next_time), next_time)
       THEN /\ filepath_set' = filepath_set \o Image(file)
            /\ feh_args' = Append(feh_args, filepath_set')
            /\ prog_arg' = IF program THEN filepath_set' ELSE prog_arg
       ELSE UNCHANGED <<filepath_set, feh_args, prog_arg>>
  /\ loop_time' = next_time
  /\ next_time' = NextOr(times, times_pos)
  /\ times_pos' = Advance(times, times_pos)
  /\ file' = file + 1
  /\ UNCHANGED <<input_vars, pc, times, step_time, curr_time, printed, i, result>>

\* after the loop: the fallback to last_image, then the processes are spawned
Finish ==
  /\ pc = "scan"
  /\ file > dir_count
  /\ IF filepath_set = <<>>
       THEN /\ feh_args' = Append(feh_args, last_image)
            /\ prog_arg' = IF program THEN last_image ELSE prog_arg
            /\ filepath_set' = last_image
       ELSE UNCHANGED <<filepath_set, feh_args, prog_arg>>
  /\ pc' = "listening"
  /\ UNCHANGED <<input_vars, times, step_time, loop_time, next_time, times_pos,
                 file, curr_time, last_image, printed, i, result>>

\* ----------------------------------------------------- print_schedule
\* the locals and `if 1440 % dir_count != 0 || dir_count == 0`
PrintCheck ==
  /\ pc = "start"
  /\ entry = "print_schedule"
  /\ loop_time' = midnight
  /\ i' = 0
  /\ file' = 1
  /\ IF dir_count = 0
       \* the remainder by zero is evaluated first
       THEN /\ result' = Panic
            /\ pc' = "done"
            /\ UNCHANGED step_time
       ELSE /\ step_time' = StepTime(dir_count)
            /\ IF 1440 % dir_count # 0
                 THEN result' = CountCompatError(dir_count) /\ pc' = "done"
                 ELSE pc' = "print" /\ UNCHANGED result
  /\ UNCHANGED <<input_vars, times, next_time, times_pos, curr_time,
                 filepath_set, last_image, feh_args, prog_arg, printed>>

\* an iteration of `while i < 24 * 60`
PrintLine ==
  /\ pc = "print"
  /\ i < 24 * 60
  /\ IF file <= dir_count
       THEN /\ printed' = Append(printed, <<Image(file), loop_time>>)
            /\ file' = file + 1
            /\ i' = i + step_time
            /\ loop_time' = Time_add(loop_time, step_time)
            /\ UNCHANGED <<pc, result>>
       \* dir_iter.next().unwrap() on an exhausted iterator
       ELSE /\ result' = Panic
            /\ pc' = "done"
            /\ UNCHANGED <<printed, file, i, loop_time>>
  /\ UNCHANGED <<input_vars, times, step_time, next_time, times_pos, curr_time,
                 filepath_set, last_image, feh_args, prog_arg>>

PrintDone ==
  /\ pc = "print"
  /\ i >= 24 * 60
  /\ result' = Ok
  /\ pc' = "done"
  /\ UNCHANGED <<input_vars, times, step_time, scan_vars, printed, i>>

Next ==
  \/ listener_setup
  \/ GenPush
  \/ GenDone
  \/ UseTimesArg
  \/ CallCurrentTime
  \/ SchedClosure
  \/ ScanMismatch
  \/ ScanIteration
  \/ Finish
  \/ PrintCheck
  \/ PrintLine
  \/ PrintDone

Spec == Init /\ [][Next]_vars

\* ------------------------------------------------------------- claims
Ascending(ts) == \A j \in 1..(Len(ts) - 1) : ts[j] < ts[j + 1]

Descents(ts) == Cardinality({j \in 1..(Len(ts) - 1) : ts[j + 1] < ts[j]})

\* one image per breakpoint
Paired == Len(times) = dir_count

\* wallpaper_current_time has completed its scan and chosen the image
Selected == pc = "listening"

\* error_checking has returned Ok for times
Accepted == pc \in {"scan", "listening"}

\* the breakpoint that closes the window opened by breakpoint j
WindowEnd(ts, j) == IF j < Len(ts) THEN ts[j + 1] ELSE 1440

\* C1: for a strictly ascending breakpoint sequence below 1440 paired with
\* its images, the scan selects the image whose window [bp[i], bp[i+1])
\* (bp[n] = 1440) contains now, that window is unique, and the last image is
\* selected when now is before the first breakpoint; with [08:00, 20:00]:
\* 10:00 gives the first image, 21:00, 02:00 and 07:59 the second.
C1_AscendingSelection ==
  (Selected /\ Paired /\ Ascending(times) /\ \A j \in 1..Len(times) : times[j] < 1440)
    => /\ curr_time < times[1] => filepath_set = Image(Len(times))
       /\ curr_time >= times[1] =>
            /\ Cardinality({j \in 1..Len(times) :
                 times[j] <= curr_time /\ curr_time < WindowEnd(times, j)}) = 1
            /\ \A j \in 1..Len(times) :
                 (times[j] <= curr_time /\ curr_time < WindowEnd(times, j))
                   => filepath_set = Image(j)
       /\ times = <<480, 1200>> =>
            /\ curr_time = 600 => filepath_set = Image(1)
            /\ curr_time \in {1260, 120, 479} => filepath_set = Image(2)

C1_Witness ==
  /\ Selected
  /\ times = <<480, 1200>>
  /\ dir_count = 2
  /\ curr_time = 479
  /\ filepath_set = Image(2)

\* the breakpoints at or before now, or all of them when there is none
Candidates(ts, now) ==
  IF \E j \in 1..Len(ts) : ts[j] <= now
    THEN {j \in 1..Len(ts) : ts[j] <= now}
    ELSE 1..Len(ts)

\* the images whose breakpoint is the most recent start in the daily cycle
MostRecent(ts, now) ==
  {j \in Candidates(ts, now) : \A l \in Candidates(ts, now) : ts[l] <= ts[j]}

\* C2: for an accepted breakpoint sequence that descends once, paired with
\* its images, the scan selects the image with the largest breakpoint <= now,
\* or the image with the largest breakpoint of all when none is <= now.
C2_WrapSelection ==
  (Selected /\ Paired /\ Descents(times) = 1)
    => \E j \in MostRecent(times, curr_time) : filepath_set = Image(j)

\* C3: building or validating a derived schedule for n files with n = 0 or
\* 1440 mod n # 0 ends with CountCompatError(n), in wallpaper_listener and in
\* print_schedule alike.
C3_CountCompat ==
  (pc = "done" /\ ~times_arg.some /\ (dir_count = 0 \/ 1440 % dir_count # 0))
    => result = CountCompatError(dir_count)

\* C4: every breakpoint sequence error_checking accepts has at most one descent.
C4_AtMostOneDescent == Accepted => Descents(times) <= 1

\* the first index whose value is below the first breakpoint (the wrap point)
WrapPoint(ts) == CHOOSE w \in 1..Len(ts) :
  ts[w] < ts[1] /\ \A j \in 1..(w - 1) : ts[j] >= ts[1]

\* 1440 occurs before the wrap point and again after it
SentinelTwice(ts) ==
  /\ \E w \in 1..Len(ts) : ts[w] < ts[1]
  /\ \E a \in 1..(WrapPoint(ts) - 1) : ts[a] = 1440
  /\ \E b \in (WrapPoint(ts) + 1)..Len(ts) : ts[b] = 1440

Bound(ts, j) == IF j <= Len(ts) THEN ts[j] ELSE 1440

Walked ==
  /\ pc \in {"scan", "listening", "done"}
  /\ entry = "wallpaper_listener"
  /\ dir_count > 0
  /\ Len(times) > 0

\* iteration k of error_checking meets a value below start with the
\* secondary run already open
SecondaryStep(ts, k) ==
  /\ ~ECRun(ts, k - 1).err
  /\ ECRun(ts, k - 1).other_inited
  /\ ts[k] < ts[1]

\* C6 as stated: once the secondary run is open, a later value v < start is
\* accepted exactly when v >= the secondary run's current maximum.
C6_SecondaryNonStrict ==
  Walked => \A k \in 1..Len(times) :
    SecondaryStep(times, k)
      => (~ECRun(times, k).err <=> times[k] >= ECRun(times, k - 1).curr_range_other)

\* C6 amended: once the secondary run is open, a later value v < start is
\* accepted exactly when v is strictly above the secondary run's current
\* maximum, and is rejected with OutOfOrder when v is equal to or below it;
\* [10:00, 5:00, 3:00] fails with OutOfOrder.
C6_SecondaryStrict ==
  Walked =>
    /\ \A k \in 1..Len(times) :
         SecondaryStep(times, k)
           => /\ ~ECRun(times, k).err <=>
                   times[k] > ECRun(times, k - 1).curr_range_other
              /\ times[k] <= ECRun(times, k - 1).curr_range_other
                   => pc = "done" /\ result = OutOfOrder
    /\ times = <<600, 300, 180>> => pc = "done" /\ result = OutOfOrder

C6_Witness ==
  /\ pc = "done"
  /\ result = OutOfOrder
  /\ Len(times) = 3
  /\ SecondaryStep(times, 3)
  /\ times[3] = times[2]

\* a derived schedule for a count that divides the day
Derived == entry = "wallpaper_listener" /\ ~times_arg.some

Divides == dir_count > 0 /\ 1440 % dir_count = 0

\* C7: for n > 0 dividing 1440 the derived breakpoint sequence has n
\* elements, starts at 0, is strictly ascending with consecutive elements
\* 1440/n apart: [0, s, 2s, ..., (n-1)s]; n = 4 gives [0, 360, 720, 1080].
C7_EqualIntervals ==
  (Derived /\ Divides /\ pc \in {"call", "scan", "listening", "done"})
    => /\ Len(times) = dir_count
       /\ times[1] = 0
       /\ Ascending(times)
       /\ \A j \in 1..dir_count : times[j] = (j - 1) * (1440 \div dir_count)
       /\ dir_count = 4 => times = <<0, 360, 720, 1080>>

C7_Witness ==
  /\ Derived
  /\ pc = "call"
  /\ dir_count = 9
  /\ times = <<0, 160, 320, 480, 640, 800, 960, 1120, 1280>>

\* C8: for n > 0 dividing 1440 the derived breakpoint sequence is accepted by
\* error_checking with count n, which returns the first breakpoint, 0.
C8_RoundTrip ==
  (Derived /\ Divides)
    => /\ result.kind \in {"none", "Ok"}
       /\ pc # "done"
       /\ (pc = "scan" /\ file = 1) => loop_time = 0

C8_Witness ==
  /\ Derived
  /\ dir_count = 12
  /\ pc = "scan"
  /\ file = 1
  /\ loop_time = 0
  /\ Len(times) = 12

\* C9: for an accepted breakpoint sequence paired with its images at most one
\* iteration of the scan has a window containing now (every match adds one
\* file argument to feh_handle).
C9_AtMostOneMatch == (Accepted /\ Paired) => Len(feh_args) <= 1

\* C10: the result reported and handed on after the scan is the image of the
\* last matching iteration, one of the image identifiers of the sequence.
C10_LastMatchWins ==
  Selected => /\ \E j \in 1..dir_count : filepath_set = Image(j)
              /\ filepath_set = last_image \/ Len(filepath_set) = 1

====
